---- MODULE Spec2Model ----
(***************************************************************************)
(* ROMAOrchestrator (src/src/app/agents/orchestrator.py): the query        *)
(* orchestration loop run_query / stream_query with its Guardrail, Memory  *)
(* and Tailor (generation) ports, the Plan Ledger, and the pure helpers of *)
(* TailorAgent (src/src/app/agents/tailor.py).                             *)
(*                                                                         *)
(* One action is the code that runs between two port awaits: asyncio runs  *)
(* it without interruption.  Text is abstracted to what the code reads of  *)
(* it: a query is a sequence of words, a chunk content a sequence of       *)
(* characters, a generated answer the sequence of the numbers n of its     *)
(* citation markers [n] plus a content tag.                                *)
(***************************************************************************)
EXTENDS Integers, Sequences, FiniteSets, TLC

\* ---------------------------------------------------------------- bounds
\* max_depth is drawn from 0..MaxDepthBound
MaxDepthBound == 2
\* ... and from 0..RichDepthBound where the ports answer from the rich sets
RichDepthBound == 1
\* the lists of chunks fed to _deduplicate_context have up to MaxChunksBound
\* chunks
MaxChunksBound == 3
\* the contents handed to GuardrailsAgent.enforce have up to MaxWordsBound
\* words
MaxWordsBound == 2
\* llm_max_retries is drawn from 0..MaxRetriesBound
MaxRetriesBound == 3

\* ------------------------------------------------------- program constants
SummaryCitationCap == 3
MaxTopicsKept == 5

ERR_GUARDRAIL_INJECTION == "ERR_GUARDRAIL_INJECTION"
ERR_GUARDRAIL_UNSAFE == "ERR_GUARDRAIL_UNSAFE"
ERR_MEMORY_NO_RESULTS == "ERR_MEMORY_NO_RESULTS"
ERR_TAILOR_HALLUCINATION == "ERR_TAILOR_HALLUCINATION"
ERR_TIMEOUT == "ERR_TIMEOUT"
ERR_CONNECTOR_AUTH == "ERR_CONNECTOR_AUTH"

\* the Literal of StreamEvent.event
StreamEventLiteral == {"token", "complete"}

\* ------------------------------------------------------------- failures
AgentFailure(code, rec) == [error_code |-> code, recoverable |-> rec]

\* Python None for an AgentFailureError | None variable
NoFailure == [error_code |-> "None", recoverable |-> FALSE]

\* ------------------------------------------------------------ text helpers
Min(a, b) == IF a < b THEN a ELSE b
Max(a, b) == IF a > b THEN a ELSE b

IsSpace(ch) == ch \in {" ", "\n"}

LowerChar(ch) ==
    CASE ch = "A" -> "a"
      [] ch = "B" -> "b"
      [] OTHER -> ch

\* str.lower()
Lower(s) == [i \in 1..Len(s) |-> LowerChar(s[i])]

RECURSIVE DropLeadingSpace(_)
DropLeadingSpace(s) ==
    IF s = <<>> THEN <<>>
    ELSE IF IsSpace(Head(s)) THEN DropLeadingSpace(Tail(s))
    ELSE s

\* re.sub(r"\s+", " ", s)
RECURSIVE CollapseSpace(_)
CollapseSpace(s) ==
    IF s = <<>> THEN <<>>
    ELSE IF IsSpace(Head(s))
         THEN <<" ">> \o CollapseSpace(DropLeadingSpace(Tail(s)))
         ELSE <<Head(s)>> \o CollapseSpace(Tail(s))

RECURSIVE DropTrailingSpace(_)
DropTrailingSpace(s) ==
    IF s = <<>> THEN <<>>
    ELSE IF IsSpace(s[Len(s)]) THEN DropTrailingSpace(SubSeq(s, 1, Len(s) - 1))
    ELSE s

\* str.strip()
Strip(s) == DropTrailingSpace(DropLeadingSpace(s))

\* re.sub(r"\s+", " ", content).strip().lower()
Normalize(content) == Lower(Strip(CollapseSpace(content)))

\* ------------------------------------------------------- retrieved contexts
RetrievedContext(id, content) == [chunk_id |-> id, content |-> content]

k1 == RetrievedContext("c1", <<"a">>)
\* same normalized content as k1 under another chunk_id
k2 == RetrievedContext("c2", <<" ", "A", "\n", " ">>)
\* blank content
k3 == RetrievedContext("c3", <<" ">>)
k4 == RetrievedContext("c4", <<"b">>)
k5 == RetrievedContext("c5", <<"a", " ", "b">>)
k6 == RetrievedContext("c6", <<"B", " ", "a">>)
\* the chunk_id of k1 with the content of k4
k7 == RetrievedContext("c1", <<"b">>)

\* MemoryOutput.results the Memory Port may answer with
ResultLists(env_) ==
    IF env_ = "rich"
    THEN { <<>>, <<k1, k2>>, <<k3>>, <<k1, k4, k5, k6>> }
    ELSE { <<>>, <<k1>> }

\* the contents of the chunks above
ChunkContents == {k.content : k \in {k1, k2, k3, k4, k5, k6}}

\* Normalize and Strip of each content, computed once
Normalized == [c \in ChunkContents |-> Normalize(c)]

Stripped == [c \in ChunkContents |-> Strip(c)]

ChunkIdsOf(contexts) == {contexts[i].chunk_id : i \in 1..Len(contexts)}

\* _summary_min_citations
SummaryMinCitations(contexts) ==
    LET unique_content ==
            { Normalized[contexts[i].content] :
                i \in { j \in 1..Len(contexts) :
                          /\ contexts[j].content # <<>>
                          /\ Stripped[contexts[j].content] # <<>> } }
        unique_count ==
            IF Cardinality(unique_content) # 0
            THEN Cardinality(unique_content)
            ELSE Len(contexts)
    IN  Max(1, Min(SummaryCitationCap, unique_count))

\* the loop body without the test of the normalized content
RECURSIVE DedupFromIdsOnly(_, _, _, _)
DedupFromIdsOnly(chunks, seen_ids, seen_content, ordered) ==
    IF chunks = <<>> THEN ordered
    ELSE LET chunk == Head(chunks)
         IN  IF chunk.chunk_id \in seen_ids
             THEN DedupFromIdsOnly(Tail(chunks), seen_ids, seen_content, ordered)
             ELSE DedupFromIdsOnly(Tail(chunks), seen_ids \cup {chunk.chunk_id},
                                   seen_content, Append(ordered, chunk))

\* _deduplicate_context: the loop body, over the chunks still to visit
RECURSIVE DedupFrom(_, _, _, _)
DedupFrom(chunks, seen_ids, seen_content, ordered) ==
    IF chunks = <<>> THEN ordered
    ELSE LET chunk == Head(chunks)
             normalized == Normalized[chunk.content]
         IN  IF chunk.chunk_id \in seen_ids
             THEN DedupFrom(Tail(chunks), seen_ids, seen_content, ordered)
             ELSE IF normalized \in seen_content
             THEN DedupFrom(Tail(chunks), seen_ids, seen_content, ordered)
             ELSE DedupFrom(Tail(chunks), seen_ids \cup {chunk.chunk_id},
                            seen_content \cup {normalized},
                            Append(ordered, chunk))

\* _deduplicate_context
DeduplicateContext(chunks) == DedupFrom(chunks, {}, {}, <<>>)

SourceCitation(chunk) == [chunk_id |-> chunk.chunk_id]

\* TailorAgent._extract_citations: the loop over the regex matches;
\* matches is the sequence of the numbers n of the markers [n] of the text
RECURSIVE ExtractFrom(_, _, _, _)
ExtractFrom(matches, chunks, seen_indices, citations) ==
    IF matches = <<>> THEN citations
    ELSE LET idx == Head(matches) - 1
         IN  IF idx < 0 \/ idx >= Len(chunks)
             THEN ExtractFrom(Tail(matches), chunks, seen_indices, citations)
             ELSE IF idx \in seen_indices
             THEN ExtractFrom(Tail(matches), chunks, seen_indices, citations)
             ELSE ExtractFrom(Tail(matches), chunks, seen_indices \cup {idx},
                              Append(citations, SourceCitation(chunks[idx + 1])))

\* TailorAgent._extract_citations
ExtractCitations(matches, chunks) == ExtractFrom(matches, chunks, {}, <<>>)

\* ------------------------------------------------------------ query text
LowerWord(w) ==
    CASE w = "Summarize" -> "summarize"
      [] w = "Compare" -> "compare"
      [] w = "VS" -> "vs"
      [] OTHER -> w

\* QueryRequest.text of the requests served
RequestTexts ==
    { <<"explain", "pii">>,
      <<"Summarize", "alpha", "VS", "beta">> }

\* the keywords of _is_summary_query
SummaryKeywords ==
    {"summarize", "summary", "overview", "high-level", "tl;dr", "tldr"}

\* ROMAOrchestrator._is_summary_query (a keyword is a word of the query)
IsSummaryQuery(query) ==
    \E i \in 1..Len(query) : LowerWord(query[i]) \in SummaryKeywords

\* the redaction a Guardrail Port applies to PII
Redact(content) ==
    [i \in 1..Len(content) |->
        IF content[i] = "pii" THEN "[REDACTED]" ELSE content[i]]

\* re.split(r"\band\b|\bvs\b|\bversus\b", query, flags=re.IGNORECASE)
RECURSIVE SplitFrom(_, _, _)
SplitFrom(words, current, parts) ==
    IF words = <<>> THEN Append(parts, current)
    ELSE IF LowerWord(Head(words)) \in {"and", "vs", "versus"}
         THEN SplitFrom(Tail(words), <<>>, Append(parts, current))
         ELSE SplitFrom(Tail(words), Append(current, Head(words)), parts)

\* re.sub(r"^(compare|versus|vs)\s+", "", part.strip(), flags=re.IGNORECASE)
CleanPart(part) ==
    IF Len(part) >= 2 /\ LowerWord(part[1]) \in {"compare", "versus", "vs"}
    THEN Tail(part)
    ELSE part

RECURSIVE CleanedParts(_)
CleanedParts(parts) ==
    IF parts = <<>> THEN <<>>
    ELSE LET cleaned == CleanPart(Head(parts))
         IN  IF cleaned # <<>>
             THEN <<cleaned>> \o CleanedParts(Tail(parts))
             ELSE CleanedParts(Tail(parts))

Truncate(s, n) == SubSeq(s, 1, Min(n, Len(s)))

\* the regex fallback of _extract_topics
FallbackTopics(query) ==
    IF ~ ( \/ \E i \in 1..Len(query) : LowerWord(query[i]) = "compare"
           \/ \E i \in 2..(Len(query) - 1) :
                  LowerWord(query[i]) \in {"vs", "versus"} )
    THEN <<>>
    ELSE Truncate(CleanedParts(SplitFrom(query, <<>>, <<>>)), MaxTopicsKept)

\* what LLMService.generate answers to the topic extraction prompt
TopicReplies ==
    { [kind |-> "failure", topics |-> <<>>],
      [kind |-> "unparsable", topics |-> <<>>],
      [kind |-> "list", topics |-> <<>>],
      [kind |-> "list", topics |-> << <<"alpha">>, <<"beta">> >>] }

\* ROMAOrchestrator._llm_extract_topics, from the reply of generate
LlmExtractTopics(reply) ==
    IF reply.kind = "list" THEN Truncate(reply.topics, MaxTopicsKept)
    ELSE <<>>

\* ROMAOrchestrator._extract_topics, from the reply of generate
ExtractTopics(query, reply) ==
    LET llm_topics == LlmExtractTopics(reply)
    IN  IF llm_topics # <<>> THEN llm_topics ELSE FallbackTopics(query)

\* targets taken to be [query] whatever the topics
TargetsQueryOnly(query, topics) == <<query>>

\* targets = topics or [query]
Targets(query, topics) == IF topics # <<>> THEN topics ELSE <<query>>

\* ------------------------------------------------------------ plan ledger
\* ROMAOrchestrator._add_plan_step
AddPlanStep(plan_, description, tool_call, status) ==
    Append(plan_, [step_id |-> Len(plan_) + 1,
                   description |-> description,
                   tool_call |-> tool_call,
                   status |-> status])

\* step.status = status, step being the PlanStep appended at index i (a
\* PlanStep that is not in self._plan has no index: self._plan is untouched)
SetStatus(plan_, i, status) ==
    IF i \in 1..Len(plan_) THEN [plan_ EXCEPT ![i].status = status] ELSE plan_

StepsWith(plan_, tool_call) ==
    {i \in 1..Len(plan_) : plan_[i].tool_call = tool_call}

RetrySteps(plan_) == StepsWith(plan_, "orchestrator.retry")

RECURSIVE CountOf(_, _)
CountOf(log, name) ==
    IF log = <<>> THEN 0
    ELSE (IF Head(log) = name THEN 1 ELSE 0) + CountOf(Tail(log), name)

\* ------------------------------------------------------------ port replies
\* environments: in "rich" and "plain" every port may return, fail or raise
\* on every call, "rich" over a corpus with duplicate and blank chunks and
\* more generated texts; in "always_hallucinates" the guardrails pass, the
\* Memory Port always finds contexts and every synthesis ends in a
\* recoverable hallucination Failure
Envs == {"rich", "plain", "always_hallucinates"}

AnyReply(env_) == env_ \in {"rich", "plain"}

GuardrailFailures ==
    { AgentFailure(ERR_GUARDRAIL_INJECTION, FALSE),
      AgentFailure(ERR_TIMEOUT, TRUE) }

\* GuardrailsProtocol.enforce on a query: GuardrailsOutput, an AgentFailure
\* returned, or an AgentFailureError raised
GuardrailInputReplies(content, env_) ==
    { [kind |-> "ok", sanitized_content |-> c, failure |-> NoFailure] :
        c \in IF env_ = "rich" THEN {content, Redact(content), <<>>}
              ELSE {content} }
    \cup
    (IF AnyReply(env_)
     THEN { [kind |-> k, sanitized_content |-> <<>>, failure |-> f] :
              k \in {"returned", "raised"}, f \in GuardrailFailures }
     ELSE {})

MemoryFailures ==
    { AgentFailure(ERR_MEMORY_NO_RESULTS, TRUE),
      AgentFailure(ERR_TIMEOUT, TRUE),
      AgentFailure(ERR_TIMEOUT, FALSE) }

\* MemoryAgentProtocol.query: MemoryOutput, AgentFailure returned, or
\* AgentFailureError raised
MemoryReplies(env_) ==
    IF AnyReply(env_)
    THEN { [kind |-> "ok", results |-> r, failure |-> NoFailure] :
             r \in ResultLists(env_) }
         \cup
         { [kind |-> k, results |-> <<>>, failure |-> f] :
             k \in {"returned", "raised"}, f \in MemoryFailures }
    ELSE { [kind |-> "ok", results |-> r, failure |-> NoFailure] :
             r \in ResultLists("rich") \ {<<>>} }

\* the words of a generated answer
AnswerWords == <<"answer", "pii">>

\* the citation markers of the texts the LLM generates
GeneratedMarkers(env_) ==
    IF env_ = "rich"
    THEN { <<>>, <<1>>, <<1, 1>>, <<2, 1>>, <<1, 2, 3>>, <<0>>, <<1, 9>> }
    ELSE { <<1>>, <<9>> }

GeneratedText(markers) == [words |-> AnswerWords, markers |-> markers]

NoText == [words |-> <<>>, markers |-> <<>>]

\* LLMService.generate for the synthesis prompt: a text or an AgentFailure
LlmReplies(env_) ==
    { [kind |-> "text", text |-> GeneratedText(m), failure |-> NoFailure] :
        m \in GeneratedMarkers(env_) }
    \cup
    { [kind |-> "failure", text |-> NoText, failure |-> f] :
        f \in {AgentFailure(ERR_TIMEOUT, TRUE), AgentFailure(ERR_TIMEOUT, FALSE)} }

TailorOutput(content, citations) ==
    [content |-> content, citations |-> citations]

NoResponse == TailorOutput(NoText, <<>>)

TailorRaised(f) == [kind |-> "raised", output |-> NoResponse, failure |-> f]

TailorReturned(out) == [kind |-> "ok", output |-> out, failure |-> NoFailure]

\* _build_tailor_output without the test of line 238
BuildTailorOutputUnchecked(context, content) ==
    TailorReturned(TailorOutput(content, ExtractCitations(content.markers, context)))

\* TailorAgent._build_tailor_output
BuildTailorOutput(context, content) ==
    LET citations == ExtractCitations(content.markers, context)
    IN  IF citations = <<>>
        THEN TailorRaised(AgentFailure(ERR_TAILOR_HALLUCINATION, TRUE))
        ELSE TailorReturned(TailorOutput(content, citations))

\* TailorAgent.process, from the reply of LLMService.generate
TailorAgentProcess(context, llm_reply) ==
    IF context = <<>>
    THEN TailorRaised(AgentFailure(ERR_TAILOR_HALLUCINATION, FALSE))
    ELSE LET unique_context == DeduplicateContext(context)
         IN  IF llm_reply.kind = "failure"
             THEN TailorRaised(llm_reply.failure)
             ELSE BuildTailorOutput(unique_context, llm_reply.text)

\* the citations a test double of the Tailor hands back whatever was
\* retrieved (_DeterministicTailor); chunk "c9" is in no result list
StubCitations(env_) ==
    IF env_ = "rich"
    THEN { <<>>, <<[chunk_id |-> "c1"]>>,
           <<[chunk_id |-> "c1"], [chunk_id |-> "c9"]>> }
    ELSE { <<[chunk_id |-> "c9"]>> }

\* TailorProtocol.process: the TailorAgent or a double of it
TailorReplies(context, env_) ==
    IF AnyReply(env_)
    THEN { TailorAgentProcess(context, r) : r \in LlmReplies(env_) }
         \cup
         { TailorReturned(TailorOutput(GeneratedText(<<>>), cs)) :
             cs \in StubCitations(env_) }
    ELSE { TailorRaised(AgentFailure(ERR_TAILOR_HALLUCINATION, TRUE)),
           TailorReturned(TailorOutput(GeneratedText(<<>>), <<>>)) }

RedactText(content) == [content EXCEPT !.words = Redact(content.words)]

\* GuardrailsProtocol.enforce on an answer
GuardrailOutputReplies(content, env_) ==
    { [kind |-> "ok", sanitized_content |-> c, failure |-> NoFailure] :
        c \in {content, RedactText(content)} }
    \cup
    (IF AnyReply(env_)
     THEN { [kind |-> k, sanitized_content |-> NoText, failure |-> f] :
              k \in {"returned", "raised"}, f \in GuardrailFailures }
     ELSE {})

\* _verify_tailor_output without its citation-scope check
VerifyTailorOutputCountOnly(response_, contexts_, min_citations) ==
    IF response_.citations = <<>> \/ Len(response_.citations) < min_citations
    THEN [error_code |-> "ERR_TAILOR_HALLUCINATION", recoverable |-> TRUE]
    ELSE [error_code |-> "None", recoverable |-> FALSE]

\* ROMAOrchestrator._verify_tailor_output: the AgentFailureError it raises,
\* NoFailure when it returns
VerifyTailorOutput(response_, contexts_, min_citations) ==
    IF response_.citations = <<>> \/ Len(response_.citations) < min_citations
    THEN AgentFailure(ERR_TAILOR_HALLUCINATION, TRUE)
    ELSE LET available_ids == ChunkIdsOf(contexts_)
             invalid == { i \in 1..Len(response_.citations) :
                            response_.citations[i].chunk_id \notin available_ids }
         IN  IF invalid # {}
             THEN AgentFailure(ERR_TAILOR_HALLUCINATION, TRUE)
             ELSE NoFailure

\* min_citations = 1 whatever the mode
MinCitationsAlwaysOne(contexts_, summary) == 1

\* min_citations = _summary_min_citations(contexts) if summary else 1
MinCitations(contexts_, summary) ==
    IF summary THEN SummaryMinCitations(contexts_) ELSE 1

\* _apply_output_guardrails, the GuardrailsOutput at hand
ApplyOutputGuardrails(response_, sanitized_content) ==
    IF sanitized_content = response_.content THEN response_
    ELSE [response_ EXCEPT !.content = sanitized_content]

\* _apply_input_guardrails without the isinstance test of lines 246-248
InputGuardrailFailedRaisedOnly(reply) == reply.kind = "raised"

\* _apply_input_guardrails: the port reported a Failure (lines 243-248)
InputGuardrailFailed(reply) == reply.kind \in {"returned", "raised"}

\* result.sanitized_content or content
SanitizedOrContent(sanitized_content, content) ==
    IF sanitized_content # <<>> THEN sanitized_content ELSE content

\* while attempt <= self._max_depth
LoopContinuesOnceMore(attempt_, max_depth_) == attempt_ <= max_depth_

\* while attempt < self._max_depth
LoopContinues(attempt_, max_depth_) == attempt_ < max_depth_

\* the recoverable test of line 150 left out
ShouldRaiseNever(last_error_) == FALSE

\* if not last_error.failure.recoverable: raise last_error
ShouldRaise(last_error_) == ~ last_error_.recoverable

\* lines 161-168 raising the timeout whatever last_error is
ExhaustedErrorAlwaysTimeout(last_error_) ==
    [error_code |-> "ERR_TIMEOUT", recoverable |-> FALSE]

\* lines 161-168: what is raised once the loop is left
ExhaustedError(last_error_) ==
    IF last_error_ = NoFailure
    THEN AgentFailure(ERR_TIMEOUT, FALSE)
    ELSE last_error_

\* StreamEvent(event=..., data=...): pydantic accepts the event names of the
\* Literal and raises ValidationError for any other
StreamEventValid(event) == event \in StreamEventLiteral

\* ------------------------------------------------------ the GuardrailsAgent
\* _PII_PLACEHOLDER
PII_PLACEHOLDER == "[REDACTED:PII]"

\* words that match one of self._injection_patterns
InjectionWords == {"DAN"}

\* words that hold one of self._hate_keywords
HateWords == {"genocide"}

\* words that match one of self._malicious_patterns
MaliciousWords == {"os.system"}

\* words that match one of self._pii_patterns
PiiWords == {"pii"}

\* GuardrailsAgent._match_any and _contains_keyword, as a truth value
MatchAny(content, words) == \E i \in 1..Len(content) : content[i] \in words

\* GuardrailsAgent._sanitize_pii: the sanitized text
SanitizePii(text) ==
    [i \in 1..Len(text) |->
        IF text[i] \in PiiWords THEN PII_PLACEHOLDER ELSE text[i]]

\* _scan with the PII test ahead of the others
ScanPiiFirst(content) ==
    [risk_category |->
         CASE MatchAny(content, PiiWords) -> "pii"
           [] MatchAny(content, InjectionWords) -> "injection"
           [] MatchAny(content, HateWords) -> "hate_speech"
           [] MatchAny(content, MaliciousWords) -> "malicious_code"
           [] OTHER -> "none",
     sanitized_content |-> SanitizePii(content)]

\* GuardrailsAgent._scan; risk_category "none" is Python None
Scan(content) ==
    [risk_category |->
         CASE MatchAny(content, InjectionWords) -> "injection"
           [] MatchAny(content, HateWords) -> "hate_speech"
           [] MatchAny(content, MaliciousWords) -> "malicious_code"
           [] MatchAny(content, PiiWords) -> "pii"
           [] OTHER -> "none",
     sanitized_content |-> SanitizePii(content)]

\* _is_safe with PII taken to be safe whatever the check_type
IsSafePiiAlways(risk, check_type) == risk \in {"none", "pii"}

\* GuardrailsAgent._is_safe
IsSafe(risk, check_type) ==
    IF risk = "none" THEN TRUE
    ELSE IF risk = "pii" /\ check_type = "input_validation" THEN TRUE
    ELSE FALSE

\* GuardrailsAgent.evaluate
Evaluate(content, check_type) ==
    LET detection == Scan(content)
    IN  [is_safe |-> IsSafe(detection.risk_category, check_type),
         sanitized_content |-> detection.sanitized_content,
         risk_category |-> detection.risk_category]

\* the AgentFailure of GuardrailsAgent.enforce, with its details
GuardrailFailure(code, risk) ==
    [error_code |-> code, recoverable |-> FALSE,
     details |-> [risk_category |-> risk]]

\* GuardrailsAgent.enforce
Enforce(content, check_type) ==
    LET result == Evaluate(content, check_type)
    IN  IF result.is_safe
        THEN [kind |-> "ok", sanitized_content |-> result.sanitized_content,
              failure |-> NoFailure]
        ELSE [kind |-> "returned", sanitized_content |-> <<>>,
              failure |-> GuardrailFailure(
                              IF result.risk_category = "injection"
                              THEN ERR_GUARDRAIL_INJECTION
                              ELSE ERR_GUARDRAIL_UNSAFE,
                              result.risk_category)]

\* enforce on the content of a TailorOutput (check_type "output_safety")
EnforceOutput(content) ==
    LET reply == Enforce(content.words, "output_safety")
    IN  [reply EXCEPT !.sanitized_content =
             IF reply.kind = "ok"
             THEN [content EXCEPT !.words = reply.sanitized_content]
             ELSE NoText]

\* ------------------------------------------------------------------ state
VARIABLES
    max_depth,        \* self._max_depth
    env,              \* how the ports behave
    mode,             \* "batch" in run_query, "stream" in stream_query
    pc,               \* the await the invocation is suspended at
    request_text,     \* request.text
    guard_result,     \* result of enforce in _apply_input_guardrails
    sanitized_query,
    summary_mode,
    topics,
    attempt,
    last_error,
    plan,             \* self._plan
    contexts,
    target,           \* index of topic in targets (_retrieve_contexts)
    step,             \* index of step in plan (_retrieve_contexts)
    relaxed_step,     \* index of relaxed_step in plan
    synth_step,       \* index of step in plan (_synthesize_and_verify)
    response,         \* response of _synthesize_and_verify
    output,           \* final_response of the OrchestratorOutput returned
    error,            \* failure of the AgentFailureError raised to the caller
    events,           \* StreamEvents yielded by stream_query
    calls,            \* port calls made so far, in order
    unique_context,   \* unique_context of TailorAgent.finalize_streamed_output
    check_type,       \* payload.check_type of GuardrailsAgent.enforce
    max_retries,      \* self._max_retries of the LLMService
    retry_attempt,    \* attempt of _retry_with_backoff
    delay,            \* delay of _retry_with_backoff, in seconds
    provider_calls,   \* outcomes of the provider calls made, in order
    llm_result        \* what LLMService.generate handed back

vars ==
    <<max_depth, env, mode, pc, request_text, guard_result, sanitized_query,
      summary_mode, topics, attempt, last_error, plan, contexts, target, step,
      relaxed_step, synth_step, response, output, error, events, calls,
      unique_context, check_type, max_retries, retry_attempt, delay,
      provider_calls, llm_result>>

\* the state of an LLMService.generate call
llm_vars == <<max_retries, retry_attempt, delay, provider_calls, llm_result>>

NoLlmResult == [kind |-> "none", failure |-> NoFailure]

\* no LLMService.generate call is followed
LlmIdle ==
    /\ max_retries = 0
    /\ retry_attempt = 0
    /\ delay = 0
    /\ provider_calls = <<>>
    /\ llm_result = NoLlmResult

NoGuardResult == [kind |-> "none", sanitized_content |-> <<>>, failure |-> NoFailure]

\* ROMAOrchestrator.__init__
Init ==
    /\ env \in Envs
    /\ max_depth \in 0..(IF env = "rich" THEN RichDepthBound ELSE MaxDepthBound)
    /\ mode = "none"
    /\ pc = "idle"
    /\ request_text = <<>>
    /\ guard_result = NoGuardResult
    /\ sanitized_query = <<>>
    /\ summary_mode = FALSE
    /\ topics = <<>>
    /\ attempt = 0
    /\ last_error = NoFailure
    /\ plan = <<>>
    /\ contexts = <<>>
    /\ target = 0
    /\ step = 0
    /\ relaxed_step = 0
    /\ synth_step = 0
    /\ response = NoResponse
    /\ output = NoResponse
    /\ error = NoFailure
    /\ events = <<>>
    /\ calls = <<>>
    /\ unique_context = <<>>
    /\ check_type = "none"
    /\ LlmIdle

\* the variables run_query's loop works on, all at once
Goto(pc_, attempt_, last_error_, plan_, contexts_, target_, step_, relaxed_step_, synth_step_, response_, output_, error_, calls_) ==
    /\ pc' = pc_
    /\ attempt' = attempt_
    /\ last_error' = last_error_
    /\ plan' = plan_
    /\ contexts' = contexts_
    /\ target' = target_
    /\ step' = step_
    /\ relaxed_step' = relaxed_step_
    /\ synth_step' = synth_step_
    /\ response' = response_
    /\ output' = output_
    /\ error' = error_
    /\ calls' = calls_

\* step = self._add_plan_step(...); step.status = "in_progress"
OpenStep(plan_, description, tool_call) ==
    LET added == AddPlanStep(plan_, description, tool_call, "pending")
    IN  SetStatus(added, Len(added), "in_progress")

\* lines 152-159 appending the retry step twice
RetryPlanTwice(plan_, attempt_) ==
    LET description == <<"Retry planning iteration", <<>>, attempt_ + 1>>
    IN  AddPlanStep(
            AddPlanStep(plan_, description, "orchestrator.retry", "pending"),
            description, "orchestrator.retry", "pending")

\* the "orchestrator.retry" step of lines 152-159
RetryPlan(plan_, attempt_) ==
    AddPlanStep(plan_, <<"Retry planning iteration", <<>>, attempt_ + 1>>,
                "orchestrator.retry", "pending")

\* attempt += 1 and _retrieve_contexts up to the query for the first target
StartCycle(plan_, attempt_, last_error_, targets, calls_) ==
    LET opened == OpenStep(plan_, <<"Retrieve context", targets[1], attempt_ + 1>>,
                           "memory.query")
    IN  Goto("await_memory_strict", attempt_ + 1, last_error_, opened, <<>>,
             1, Len(opened), 0, 0, NoResponse, NoResponse, NoFailure,
             Append(calls_, "memory.query"))

\* the loop test of line 128, and lines 161-168 when it fails
LoopOrExit(plan_, attempt_, last_error_, contexts_, targets, calls_) ==
    IF LoopContinues(attempt_, max_depth)
    THEN StartCycle(plan_, attempt_, last_error_, targets, calls_)
    ELSE Goto("raised", attempt_, last_error_, plan_, contexts_, 0, 0, 0, 0,
              NoResponse, NoResponse, ExhaustedError(last_error_), calls_)

\* lines 133-159 with the retry step left out after the last cycle
EndCycleNoLastRetry(plan_, failure, contexts_, targets, calls_) ==
    IF ShouldRaise(failure)
    THEN Goto("raised", attempt, failure, plan_, contexts_, 0, 0, 0, 0,
              NoResponse, NoResponse, failure, calls_)
    ELSE LoopOrExit(IF LoopContinues(attempt, max_depth)
                    THEN RetryPlan(plan_, attempt) ELSE plan_,
                    attempt, failure, contexts_, targets, calls_)

\* lines 133-159 for a cycle that ended in failure
EndCycle(plan_, failure, contexts_, targets, calls_) ==
    IF ShouldRaise(failure)
    THEN Goto("raised", attempt, failure, plan_, contexts_, 0, 0, 0, 0,
              NoResponse, NoResponse, failure, calls_)
    ELSE LoopOrExit(RetryPlan(plan_, attempt), attempt, failure, contexts_,
                    targets, calls_)

\* the test of line 337 taken to be false
NoContextsNever(contexts_) == FALSE

\* if not contexts (line 337)
NoContexts(contexts_) == contexts_ = <<>>

\* _synthesize_and_verify up to the call of the Tailor
Synthesize(plan_, contexts_, targets, calls_) ==
    LET opened == OpenStep(plan_, <<"Verifier + Synthesize", <<>>, attempt>>,
                           "tailor.process+verifier")
    IN  IF NoContexts(contexts_)
        THEN EndCycle(SetStatus(opened, Len(opened), "failed"),
                      AgentFailure(ERR_MEMORY_NO_RESULTS, TRUE),
                      contexts_, targets, calls_)
        ELSE Goto("await_tailor", attempt, last_error, opened, contexts_,
                  0, 0, 0, Len(opened), NoResponse, NoResponse, NoFailure,
                  Append(calls_, "tailor.process"))

\* _retrieve_contexts once a target is done: the next target, or the return
\* of the contexts to run_query, which goes on to _synthesize_and_verify
AfterTarget(plan_, contexts_, targets, calls_) ==
    IF target < Len(targets)
    THEN LET opened == OpenStep(plan_,
                 <<"Retrieve context", targets[target + 1], attempt>>,
                 "memory.query")
         IN  Goto("await_memory_strict", attempt, last_error, opened, contexts_,
                  target + 1, Len(opened), 0, 0, NoResponse, NoResponse,
                  NoFailure, Append(calls_, "memory.query"))
    ELSE Synthesize(plan_, contexts_, targets, calls_)

\* run_query up to the await of the input guardrail
RunQuery(text) ==
    /\ pc = "idle"
    /\ mode' = "batch"
    /\ request_text' = text
    /\ plan' = OpenStep(<<>>, <<"Guardrails validation", <<>>, 0>>,
                        "guardrails.enforce")
    /\ pc' = "await_guard_input"
    /\ calls' = Append(calls, "guardrails.enforce")
    /\ UNCHANGED <<llm_vars, check_type, unique_context, max_depth, env,
                   guard_result, sanitized_query, summary_mode, topics,
                   attempt, last_error, contexts, target, step, relaxed_step,
                   synth_step, response, output, error, events>>

\* stream_query up to the await of the input guardrail
StreamQuery(text) ==
    /\ pc = "idle"
    /\ mode' = "stream"
    /\ request_text' = text
    /\ plan' = OpenStep(<<>>, <<"Guardrails validation", <<>>, 0>>,
                        "guardrails.enforce")
    /\ pc' = "await_guard_input"
    /\ calls' = Append(calls, "guardrails.enforce")
    /\ UNCHANGED <<llm_vars, check_type, unique_context, max_depth, env,
                   guard_result, sanitized_query, summary_mode, topics,
                   attempt, last_error, contexts, target, step, relaxed_step,
                   synth_step, response, output, error, events>>

\* run_query: _apply_input_guardrails resumes, then _is_summary_query and
\* _extract_topics up to the await of LLMService.generate
GuardInputReturn(reply) ==
    /\ pc = "await_guard_input"
    /\ mode = "batch"
    /\ guard_result' = reply
    /\ IF InputGuardrailFailed(reply)
       THEN /\ plan' = SetStatus(plan, Len(plan), "failed")
            /\ pc' = "raised"
            /\ error' = reply.failure
            /\ UNCHANGED <<sanitized_query, summary_mode, calls>>
       ELSE /\ plan' = SetStatus(plan, Len(plan), "completed")
            /\ sanitized_query' =
                   SanitizedOrContent(reply.sanitized_content, request_text)
            /\ summary_mode' = IsSummaryQuery(sanitized_query')
            /\ pc' = "await_topics"
            /\ calls' = Append(calls, "llm.generate")
            /\ UNCHANGED error
    /\ UNCHANGED <<llm_vars, check_type, unique_context, max_depth, env, mode,
                   request_text, topics, attempt, last_error, contexts,
                   target, step, relaxed_step, synth_step, response, output,
                   events>>

\* stream_query: _apply_input_guardrails resumes; the generator then builds
\* its first StreamEvent, "error" (line 179) or "thinking" (line 183).
\* Lines 184-232 run only after the "thinking" event was built.
StreamGuardInputReturn(reply) ==
    /\ pc = "await_guard_input"
    /\ mode = "stream"
    /\ guard_result' = reply
    /\ IF InputGuardrailFailed(reply)
       THEN /\ plan' = SetStatus(plan, Len(plan), "failed")
            /\ UNCHANGED <<sanitized_query, summary_mode>>
            /\ IF StreamEventValid("error")
               THEN /\ events' = Append(events, [event |-> "error",
                                                 data |-> reply.failure])
                    /\ pc' = "stream_closed"
               ELSE /\ pc' = "stream_raised"
                    /\ UNCHANGED events
       ELSE /\ plan' = SetStatus(plan, Len(plan), "completed")
            /\ sanitized_query' =
                   SanitizedOrContent(reply.sanitized_content, request_text)
            /\ summary_mode' = IsSummaryQuery(sanitized_query')
            /\ IF StreamEventValid("thinking")
               THEN /\ events' = Append(events, [event |-> "thinking",
                                                 data |-> NoFailure])
                    /\ pc' = "stream_thinking"
               ELSE /\ pc' = "stream_raised"
                    /\ UNCHANGED events
    /\ UNCHANGED <<llm_vars, check_type, unique_context, max_depth, env, mode,
                   request_text, topics, attempt, last_error, contexts,
                   target, step, relaxed_step, synth_step, response, output,
                   error, calls>>

\* run_query: _extract_topics resumes, then the loop up to the first
\* memory query
TopicsReturn(reply) ==
    /\ pc = "await_topics"
    /\ LET extracted == ExtractTopics(sanitized_query, reply)
       IN  /\ topics' = extracted
           /\ LoopOrExit(plan, 0, NoFailure, <<>>,
                         Targets(sanitized_query, extracted), calls)
    /\ UNCHANGED <<llm_vars, check_type, unique_context, max_depth, env, mode,
                   request_text, guard_result, sanitized_query, summary_mode,
                   events>>

\* isinstance(result, AgentFailure) taken to be false
IsAgentFailureNever(reply) == FALSE

\* isinstance(result, AgentFailure), lines 284 and 302
IsAgentFailure(reply) == reply.kind = "returned"

\* _retrieve_contexts resumes from the strict query of a target
MemoryStrictReturn(reply) ==
    /\ pc = "await_memory_strict"
    /\ LET targets == Targets(sanitized_query, topics)
       IN  CASE reply.kind = "raised" ->
                  \* the query raised AgentFailureError: lines 313-315
                  EndCycle(SetStatus(plan, step, "failed"), reply.failure,
                           <<>>, targets, calls)
             [] IsAgentFailure(reply)
                  /\ reply.failure.error_code = ERR_MEMORY_NO_RESULTS ->
                  \* lines 286-301: the relaxed query of the same target
                  LET failed == SetStatus(plan, step, "failed")
                      opened == OpenStep(failed,
                          <<"Relax retrieval threshold", targets[target], attempt>>,
                          "memory.query")
                  IN  Goto("await_memory_relaxed", attempt, last_error, opened,
                           contexts, target, step, Len(opened), 0, NoResponse,
                           NoResponse, NoFailure, Append(calls, "memory.query"))
             [] IsAgentFailure(reply) ->
                  \* lines 308-309, then 313-315
                  EndCycle(SetStatus(plan, step, "failed"), reply.failure,
                           <<>>, targets, calls)
             [] OTHER ->
                  \* contexts.extend(result.results); step.status = "completed"
                  AfterTarget(SetStatus(plan, step, "completed"),
                              contexts \o reply.results, targets, calls)
    /\ UNCHANGED <<llm_vars, check_type, unique_context, max_depth, env, mode,
                   request_text, guard_result, sanitized_query, summary_mode,
                   topics, events>>

\* _retrieve_contexts resumes from the relaxed query of a target
MemoryRelaxedReturn(reply) ==
    /\ pc = "await_memory_relaxed"
    /\ LET targets == Targets(sanitized_query, topics)
       IN  CASE reply.kind = "raised" ->
                  \* the query raised: lines 313-315 only
                  EndCycle(SetStatus(plan, step, "failed"), reply.failure,
                           <<>>, targets, calls)
             [] IsAgentFailure(reply) ->
                  \* lines 303-304, then 313-315
                  EndCycle(
                      SetStatus(SetStatus(plan, relaxed_step, "failed"),
                                step, "failed"),
                      reply.failure, <<>>, targets, calls)
             [] OTHER ->
                  \* lines 305-306, 312 and 316
                  AfterTarget(
                      SetStatus(SetStatus(plan, relaxed_step, "completed"),
                                step, "completed"),
                      contexts \o reply.results, targets, calls)
    /\ UNCHANGED <<llm_vars, check_type, unique_context, max_depth, env, mode,
                   request_text, guard_result, sanitized_query, summary_mode,
                   topics, events>>

\* _synthesize_and_verify resumes from self._tailor_agent.process
TailorReturn(reply) ==
    /\ pc = "await_tailor"
    /\ IF reply.kind = "raised"
       THEN EndCycle(SetStatus(plan, synth_step, "failed"), reply.failure,
                     contexts, Targets(sanitized_query, topics), calls)
       ELSE Goto("verifying", attempt, last_error, plan, contexts, 0, 0, 0,
                 synth_step, reply.output, NoResponse, NoFailure, calls)
    /\ UNCHANGED <<llm_vars, check_type, unique_context, max_depth, env, mode,
                   request_text, guard_result, sanitized_query, summary_mode,
                   topics, events>>

\* lines 356-358: _verify_tailor_output, then _apply_output_guardrails up to
\* the await of the guardrail
Verify ==
    /\ pc = "verifying"
    /\ LET verdict == VerifyTailorOutput(response, contexts,
                          MinCitations(contexts, summary_mode))
       IN  IF verdict # NoFailure
           THEN EndCycle(SetStatus(plan, synth_step, "failed"), verdict,
                         contexts, Targets(sanitized_query, topics), calls)
           ELSE Goto("await_guard_output", attempt, last_error, plan, contexts,
                     0, 0, 0, synth_step, response, NoResponse, NoFailure,
                     Append(calls, "guardrails.enforce"))
    /\ UNCHANGED <<llm_vars, check_type, unique_context, max_depth, env, mode,
                   request_text, guard_result, sanitized_query, summary_mode,
                   topics, events>>

\* _apply_output_guardrails without the isinstance test of lines 375-376
OutputGuardrailFailedRaisedOnly(reply) == reply.kind = "raised"

\* _apply_output_guardrails: the port reported a Failure (lines 373-376)
OutputGuardrailFailed(reply) == reply.kind \in {"returned", "raised"}

\* _apply_output_guardrails resumes; _synthesize_and_verify and run_query
\* return
GuardOutputReturn(reply) ==
    /\ pc = "await_guard_output"
    /\ IF ~ OutputGuardrailFailed(reply)
       THEN Goto("returned", attempt, last_error,
                 SetStatus(plan, synth_step, "completed"), contexts, 0, 0, 0,
                 synth_step, response,
                 ApplyOutputGuardrails(response, reply.sanitized_content),
                 NoFailure, calls)
       ELSE EndCycle(SetStatus(plan, synth_step, "failed"), reply.failure,
                     contexts, Targets(sanitized_query, topics), calls)
    /\ UNCHANGED <<llm_vars, check_type, unique_context, max_depth, env, mode,
                   request_text, guard_result, sanitized_query, summary_mode,
                   topics, events>>

\* a reply is drawn from the port the invocation is waiting on
Next ==
    \/ /\ pc = "idle"
       /\ \E text \in RequestTexts : RunQuery(text)
    \/ /\ pc = "idle"
       /\ \E text \in RequestTexts : StreamQuery(text)
    \/ /\ pc = "await_guard_input"
       /\ \E reply \in GuardrailInputReplies(request_text, env) :
              GuardInputReturn(reply)
    \/ /\ pc = "await_guard_input"
       /\ \E reply \in GuardrailInputReplies(request_text, env) :
              StreamGuardInputReturn(reply)
    \/ /\ pc = "await_topics"
       /\ \E reply \in TopicReplies : TopicsReturn(reply)
    \/ /\ pc = "await_memory_strict"
       /\ \E reply \in MemoryReplies(env) : MemoryStrictReturn(reply)
    \/ /\ pc = "await_memory_relaxed"
       /\ \E reply \in MemoryReplies(env) : MemoryRelaxedReturn(reply)
    \/ /\ pc = "await_tailor"
       /\ \E reply \in TailorReplies(contexts, env) : TailorReturn(reply)
    \/ Verify
    \/ /\ pc = "await_guard_output"
       /\ \E reply \in GuardrailOutputReplies(response.content, env) :
              GuardOutputReturn(reply)

Spec == Init /\ [][Next]_vars

\* every port call returns or raises: an invocation that can go on does
FairSpec == Spec /\ WF_vars(Next)

\* the port calls an invocation is suspended at while it holds references to
\* the PlanSteps it is working on
SuspensionPoints ==
    {"await_topics", "await_memory_strict", "await_memory_relaxed",
     "await_tailor", "await_guard_output"}

\* another run_query or stream_query starts on the same ROMAOrchestrator
\* while this one is suspended: self._plan = [] (line 121 or 175), then
\* _apply_input_guardrails up to its await (lines 235-242).  The PlanSteps
\* this invocation holds are no longer in self._plan.  The other invocation
\* is followed no further: it stays suspended at its own guardrail call.
OtherInvocationStarts ==
    /\ pc \in SuspensionPoints
    /\ mode = "batch"
    /\ plan' = OpenStep(<<>>, <<"Guardrails validation", <<>>, 0>>,
                        "guardrails.enforce")
    /\ step' = 0
    /\ relaxed_step' = 0
    /\ synth_step' = 0
    /\ UNCHANGED <<llm_vars, check_type, unique_context, max_depth, env, mode,
                   pc, request_text, guard_result, sanitized_query,
                   summary_mode, topics, attempt, last_error, contexts,
                   target, response, output, error, events, calls>>

SharedNext ==
    \/ Next
    \/ OtherInvocationStarts

\* one ROMAOrchestrator serving several requests at a time
SharedSpec == Init /\ [][SharedNext]_vars

\* ------------------------------------------- the Tailor's pure functions
\* the lists of chunks handed to _deduplicate_context
ChunkLists ==
    UNION { [1..n -> {k1, k2, k3, k4, k7}] : n \in 0..MaxChunksBound }

\* the numbers of the markers re.findall finds in a response (line 197)
Matches ==
    GeneratedMarkers("rich") \cup { <<1, 1, 1>>, <<2, 1, 2, 1>>, <<3, 3>> }

\* a list of chunks is at hand, nothing has been called yet
TailorInit ==
    /\ env = "rich"
    /\ max_depth = 0
    /\ mode = "none"
    /\ pc = "chunks"
    /\ request_text = <<>>
    /\ guard_result = NoGuardResult
    /\ sanitized_query = <<>>
    /\ summary_mode = FALSE
    /\ topics = <<>>
    /\ attempt = 0
    /\ last_error = NoFailure
    /\ plan = <<>>
    /\ contexts \in ChunkLists
    /\ target = 0
    /\ step = 0
    /\ relaxed_step = 0
    /\ synth_step = 0
    /\ response = NoResponse
    /\ output = NoResponse
    /\ error = NoFailure
    /\ events = <<>>
    /\ calls = <<>>
    /\ unique_context = <<>>
    /\ check_type = "none"
    /\ LlmIdle

\* unique_context = _deduplicate_context(payload.context_chunks)
Deduplicate ==
    /\ pc = "chunks"
    /\ pc' = "deduplicated"
    /\ unique_context' = DeduplicateContext(contexts)
    /\ UNCHANGED <<llm_vars, check_type, max_depth, env, mode, request_text,
                   guard_result, sanitized_query, summary_mode, topics,
                   attempt, last_error, plan, contexts, target, step,
                   relaxed_step, synth_step, response, output, error, events,
                   calls>>

\* _deduplicate_context called on the list it returned
DeduplicateAgain ==
    /\ pc = "deduplicated"
    /\ pc' = "deduplicated_again"
    /\ contexts' = unique_context
    /\ unique_context' = DeduplicateContext(unique_context)
    /\ UNCHANGED <<llm_vars, check_type, max_depth, env, mode, request_text,
                   guard_result, sanitized_query, summary_mode, topics,
                   attempt, last_error, plan, target, step, relaxed_step,
                   synth_step, response, output, error, events, calls>>

\* citations = self._extract_citations(content, unique_context)
Extract(matches) ==
    /\ pc = "deduplicated"
    /\ pc' = "extracted"
    /\ response' = TailorOutput(GeneratedText(matches),
                                ExtractCitations(matches, unique_context))
    /\ UNCHANGED <<llm_vars, check_type, unique_context, max_depth, env, mode,
                   request_text, guard_result, sanitized_query, summary_mode,
                   topics, attempt, last_error, plan, contexts, target, step,
                   relaxed_step, synth_step, output, error, events, calls>>

TailorNext ==
    \/ Deduplicate
    \/ DeduplicateAgain
    \/ \E matches \in Matches : Extract(matches)

\* _deduplicate_context and _extract_citations on every list of chunks
TailorSpec == TailorInit /\ [][TailorNext]_vars

\* --------------------------------- run_query behind the GuardrailsAgent
\* QueryRequest.text of the requests served behind the GuardrailsAgent
GuardedRequestTexts ==
    RequestTexts \cup { <<"DAN", "explain">>, <<"explain">> }

\* the words of the answers the LLM generates
GeneratedWords ==
    { <<"answer">>, <<"answer", "pii">>, <<"pii", "pii">>, <<"DAN", "pii">>,
      <<"genocide">>, <<"pii", "os.system">> }

\* TailorAgent.process on a text of the LLM that cites the first context
GuardedTailorReplies(context) ==
    { TailorAgentProcess(context,
          [kind |-> "text", text |-> [words |-> w, markers |-> <<1>>],
           failure |-> NoFailure]) : w \in GeneratedWords }

GuardedInit ==
    /\ Init
    /\ env = "plain"
    /\ max_depth <= RichDepthBound

\* run_query with the GuardrailsAgent as the Guardrail Port
GuardedNext ==
    \/ /\ pc = "idle"
       /\ \E text \in GuardedRequestTexts : RunQuery(text)
    \/ /\ pc = "await_guard_input"
       /\ GuardInputReturn(Enforce(request_text, "input_validation"))
    \/ /\ pc = "await_topics"
       /\ \E reply \in TopicReplies : TopicsReturn(reply)
    \/ /\ pc = "await_memory_strict"
       /\ \E reply \in MemoryReplies(env) : MemoryStrictReturn(reply)
    \/ /\ pc = "await_memory_relaxed"
       /\ \E reply \in MemoryReplies(env) : MemoryRelaxedReturn(reply)
    \/ /\ pc = "await_tailor"
       /\ \E reply \in GuardedTailorReplies(contexts) : TailorReturn(reply)
    \/ Verify
    \/ /\ pc = "await_guard_output"
       /\ GuardOutputReturn(EnforceOutput(response.content))

\* the orchestrator the API builds: its Guardrail Port is a GuardrailsAgent
GuardedSpec == GuardedInit /\ [][GuardedNext]_vars

\* ------------------------------------------- GuardrailsAgent.enforce alone
\* the words a content is made of
ContentWords == {"answer", "pii", "DAN", "genocide", "os.system"}

\* GuardrailsInput.content
Contents == UNION { [1..n -> ContentWords] : n \in 0..MaxWordsBound }

\* CheckType
CheckTypes == {"input_validation", "output_safety"}

\* a GuardrailsInput is at hand
GuardrailsInit ==
    /\ env = "rich"
    /\ max_depth = 0
    /\ mode = "none"
    /\ pc = "payload"
    /\ request_text \in Contents
    /\ guard_result = NoGuardResult
    /\ sanitized_query = <<>>
    /\ summary_mode = FALSE
    /\ topics = <<>>
    /\ attempt = 0
    /\ last_error = NoFailure
    /\ plan = <<>>
    /\ contexts = <<>>
    /\ target = 0
    /\ step = 0
    /\ relaxed_step = 0
    /\ synth_step = 0
    /\ response = NoResponse
    /\ output = NoResponse
    /\ error = NoFailure
    /\ events = <<>>
    /\ calls = <<>>
    /\ unique_context = <<>>
    /\ check_type \in CheckTypes
    /\ LlmIdle

\* result = await self._guardrails.enforce(payload)
EnforcePayload ==
    /\ pc = "payload"
    /\ pc' = "enforced"
    /\ guard_result' = Enforce(request_text, check_type)
    /\ UNCHANGED <<llm_vars, check_type, unique_context, max_depth, env, mode,
                   request_text, sanitized_query, summary_mode, topics,
                   attempt, last_error, plan, contexts, target, step,
                   relaxed_step, synth_step, response, output, error, events,
                   calls>>

GuardrailsNext == EnforcePayload

\* GuardrailsAgent.enforce on every content and check type
GuardrailsSpec == GuardrailsInit /\ [][GuardrailsNext]_vars

\* ------------------------------------- run_query over an empty Memory Port
\* MemoryAgentProtocol.query of a store that finds nothing: the no-results
\* Failure, returned or raised
NoResultsReplies ==
    { [kind |-> k, results |-> <<>>,
       failure |-> AgentFailure(ERR_MEMORY_NO_RESULTS, TRUE)] :
        k \in {"returned", "raised"} }

EmptyStoreInit ==
    /\ Init
    /\ env = "plain"

\* run_query with a Memory Port that reports no-results on every query
EmptyStoreNext ==
    \/ /\ pc = "idle"
       /\ \E text \in RequestTexts : RunQuery(text)
    \/ /\ pc = "await_guard_input"
       /\ \E reply \in GuardrailInputReplies(request_text, env) :
              GuardInputReturn(reply)
    \/ /\ pc = "await_topics"
       /\ \E reply \in TopicReplies : TopicsReturn(reply)
    \/ /\ pc = "await_memory_strict"
       /\ \E reply \in NoResultsReplies : MemoryStrictReturn(reply)
    \/ /\ pc = "await_memory_relaxed"
       /\ \E reply \in NoResultsReplies : MemoryRelaxedReturn(reply)

EmptyStoreSpec == EmptyStoreInit /\ [][EmptyStoreNext]_vars

\* ------------------------------------------------- LLMService.generate
\* status codes of the responses of the provider
HttpStatuses == {400, 401, 404, 429, 500, 503}

\* what a call of the provider (func) ends in: the generated text, an
\* httpx.HTTPStatusError, an httpx.TimeoutException or another Exception
ProviderOutcomes ==
    { [kind |-> k, status |-> 0] : k \in {"text", "timeout", "exception"} }
    \cup { [kind |-> "http_status", status |-> st] : st \in HttpStatuses }

\* the RuntimeError of line 411
MaxRetriesExceeded == [kind |-> "exception", status |-> 0]

\* is_rate_limit or is_server_error (lines 389-390)
IsRetryable(status) == status = 429 \/ (500 <= status /\ status < 600)

\* is_last_attempt (line 391)
IsLastAttempt(attempt_, max_retries_) == attempt_ >= max_retries_ - 1

LlmFailure(code, rec) == [kind |-> "failure", failure |-> AgentFailure(code, rec)]

\* LLMService._handle_http_error
HandleHttpError(status) ==
    IF status \in {401, 403} THEN LlmFailure(ERR_CONNECTOR_AUTH, FALSE)
    ELSE IF status = 429 THEN LlmFailure(ERR_TIMEOUT, TRUE)
    ELSE IF 500 <= status /\ status < 600 THEN LlmFailure(ERR_TIMEOUT, TRUE)
    ELSE LlmFailure(ERR_TIMEOUT, FALSE)

\* generate without its last except clause: another Exception gets out
GenerateExceptNoFallback(exc) ==
    CASE exc.kind = "timeout" -> LlmFailure(ERR_TIMEOUT, TRUE)
      [] exc.kind = "http_status" -> HandleHttpError(exc.status)
      [] OTHER -> [kind |-> "raised", failure |-> NoFailure]

\* the except clauses of generate (lines 128-157)
GenerateExcept(exc) ==
    CASE exc.kind = "timeout" -> LlmFailure(ERR_TIMEOUT, TRUE)
      [] exc.kind = "http_status" -> HandleHttpError(exc.status)
      [] OTHER -> LlmFailure(ERR_TIMEOUT, FALSE)

\* an LLMService is configured, generate has not been called
LlmInit ==
    /\ env = "rich"
    /\ max_depth = 0
    /\ mode = "none"
    /\ pc = "llm_service"
    /\ request_text = <<>>
    /\ guard_result = NoGuardResult
    /\ sanitized_query = <<>>
    /\ summary_mode = FALSE
    /\ topics = <<>>
    /\ attempt = 0
    /\ last_error = NoFailure
    /\ plan = <<>>
    /\ contexts = <<>>
    /\ target = 0
    /\ step = 0
    /\ relaxed_step = 0
    /\ synth_step = 0
    /\ response = NoResponse
    /\ output = NoResponse
    /\ error = NoFailure
    /\ events = <<>>
    /\ calls = <<>>
    /\ unique_context = <<>>
    /\ check_type = "none"
    /\ max_retries \in 0..MaxRetriesBound
    /\ retry_attempt = 0
    /\ delay = 0
    /\ provider_calls = <<>>
    /\ llm_result = NoLlmResult

\* what the orchestrator and the agents hold, untouched by LLMService
OrchestratorUnchanged ==
    UNCHANGED <<check_type, unique_context, max_depth, env, mode,
                request_text, guard_result, sanitized_query, summary_mode,
                topics, attempt, last_error, plan, contexts, target, step,
                relaxed_step, synth_step, response, output, error, events,
                calls>>

\* the for statement of line 383 with attempt_ as its next value: the call
\* of func, or the RuntimeError of line 411 caught by generate
RetryLoop(attempt_, delay_) ==
    /\ retry_attempt' = attempt_
    /\ delay' = delay_
    /\ IF attempt_ < max_retries
       THEN /\ pc' = "await_provider"
            /\ llm_result' = llm_result
       ELSE /\ pc' = "generated"
            /\ llm_result' = GenerateExcept(MaxRetriesExceeded)

\* generate up to the first call of the provider
Generate ==
    /\ pc = "llm_service"
    /\ RetryLoop(0, 1)
    /\ UNCHANGED <<max_retries, provider_calls>>
    /\ OrchestratorUnchanged

\* the call of the provider ends: lines 385-408, and the except clauses of
\* generate when the exception is not retried
ProviderReturn(outcome) ==
    /\ pc = "await_provider"
    /\ provider_calls' = Append(provider_calls, outcome)
    /\ CASE outcome.kind = "text" ->
               /\ pc' = "generated"
               /\ llm_result' = [kind |-> "text", failure |-> NoFailure]
          [] /\ outcome.kind = "http_status"
             /\ IsRetryable(outcome.status)
             /\ ~ IsLastAttempt(retry_attempt, max_retries) ->
               /\ pc' = "sleeping"
               /\ llm_result' = llm_result
          [] OTHER ->
               /\ pc' = "generated"
               /\ llm_result' = GenerateExcept(outcome)
    /\ UNCHANGED <<max_retries, retry_attempt, delay>>
    /\ OrchestratorUnchanged

\* asyncio.sleep returns: delay *= backoff_factor and the next attempt
SleepReturn ==
    /\ pc = "sleeping"
    /\ RetryLoop(retry_attempt + 1, delay * 2)
    /\ UNCHANGED <<max_retries, provider_calls>>
    /\ OrchestratorUnchanged

LlmNext ==
    \/ Generate
    \/ /\ pc = "await_provider"
       /\ \E outcome \in ProviderOutcomes : ProviderReturn(outcome)
    \/ SleepReturn

\* one call of LLMService.generate
LlmSpec == LlmInit /\ [][LlmNext]_vars

\* ------------------------------------------------------------- properties
CitedIds(answer) == {answer.citations[i].chunk_id : i \in 1..Len(answer.citations)}

CompleteEvents == {j \in 1..Len(events) : events[j].event = "complete"}

TerminalEvents == {j \in 1..Len(events) : events[j].event \in {"complete", "error"}}

TailorSteps(plan_) == StepsWith(plan_, "tailor.process+verifier")

\* run_query raised after every one of its max_depth >= 1 cycles ended in a
\* recoverable Failure: each such cycle, and no other, appended a retry step
Exhausted ==
    /\ mode = "batch"
    /\ pc = "raised"
    /\ max_depth >= 1
    /\ Cardinality(RetrySteps(plan)) = max_depth

\* C1 (grounding invariant): every citation of an Answer that run_query
\* returns, or that a "complete" event of stream_query carries, has the
\* chunk_id of a context retrieved in the attempt that produced the Answer.
C1_Grounding ==
    /\ pc = "returned" => CitedIds(output) \subseteq ChunkIdsOf(contexts)
    /\ \A j \in CompleteEvents :
           CitedIds(events[j].data) \subseteq ChunkIdsOf(contexts)

C1_Witness ==
    /\ pc = "returned"
    /\ env = "rich"
    /\ Len(output.citations) >= 2
    /\ Len(contexts) > Len(output.citations)

\* C2 as stated (exhaustion error): when every one of the max_depth >= 1
\* cycles ends in a recoverable Failure, the Failure raised has error code
\* ERR_TIMEOUT and recoverable = false.
C2_ExhaustionIsTimeout ==
    Exhausted => error = AgentFailure(ERR_TIMEOUT, FALSE)

\* C2 as amended: when every one of the max_depth >= 1 cycles ends in a
\* recoverable Failure, the Failure raised is the Failure of the last cycle
\* itself, with its own error code and recoverable = true.
C2_ExhaustionRaisesLastFailure ==
    Exhausted =>
        /\ error = last_error
        /\ error.recoverable
        /\ error.error_code \in
               {ERR_MEMORY_NO_RESULTS, ERR_TAILOR_HALLUCINATION, ERR_TIMEOUT}

C2_Witness ==
    /\ Exhausted
    /\ max_depth = 2
    /\ error = AgentFailure(ERR_TAILOR_HALLUCINATION, TRUE)

\* C3 (bounded retry count): with a Memory Port that always finds contexts
\* and a synthesis stage that always fails with a recoverable hallucination
\* Failure, run_query has called the synthesis stage exactly max_depth times
\* when it raises, and the ledger then holds exactly max_depth retry steps.
C3_BoundedRetryCount ==
    (env = "always_hallucinates" /\ mode = "batch" /\ pc = "raised") =>
        /\ CountOf(calls, "tailor.process") = max_depth
        /\ Cardinality(TailorSteps(plan)) = max_depth
        /\ Cardinality(RetrySteps(plan)) = max_depth

C3_Witness ==
    /\ env = "always_hallucinates"
    /\ mode = "batch"
    /\ pc = "raised"
    /\ max_depth >= 2
    /\ CountOf(calls, "tailor.process") >= 2

\* C4 (termination): whatever the ports answer, run_query eventually returns
\* or raises, and it never starts more than max_depth cycles.
C4_Termination ==
    /\ (mode = "batch") ~> (pc \in {"returned", "raised"})
    /\ [](attempt <= max_depth)

C4_Witness ==
    /\ mode = "batch"
    /\ pc = "returned"
    /\ max_depth >= 2
    /\ attempt = max_depth

\* the Guardrail Port reported a non-recoverable Failure for the input check
InputBlocked ==
    /\ mode = "batch"
    /\ guard_result.kind \in {"returned", "raised"}
    /\ ~ guard_result.failure.recoverable

\* C5 (non-recoverable short-circuit on input): when the Guardrail Port
\* reports a non-recoverable Failure for the input check, returned or raised,
\* run_query raises that Failure at once: the ledger has no memory.query,
\* tailor.process+verifier or orchestrator.retry step and neither the Memory
\* Port nor the Generation Port (topic extraction included) was called.
C5_InputShortCircuit ==
    /\ [](InputBlocked =>
            /\ pc = "raised"
            /\ error = guard_result.failure
            /\ StepsWith(plan, "memory.query") = {}
            /\ TailorSteps(plan) = {}
            /\ RetrySteps(plan) = {}
            /\ calls = <<"guardrails.enforce">>)
    /\ [][InputBlocked => (calls' = calls /\ plan' = plan)]_vars

C5_Witness ==
    /\ InputBlocked
    /\ guard_result.kind = "returned"
    /\ pc = "raised"

\* a cycle of run_query ended in a non-recoverable Failure
CycleFailedForGood ==
    /\ mode = "batch"
    /\ last_error # NoFailure
    /\ ~ last_error.recoverable

\* C6 (non-recoverable abort inside the loop): a non-recoverable Failure of
\* retrieval or of synthesis, verification or output sanitization is raised
\* in the cycle it occurs in: no retry step is appended for it and no further
\* port call is made.
C6_AbortInCycle ==
    /\ [](CycleFailedForGood =>
            /\ pc = "raised"
            /\ error = last_error
            /\ Cardinality(RetrySteps(plan)) = attempt - 1
            /\ plan[Len(plan)].tool_call # "orchestrator.retry")
    /\ [][CycleFailedForGood => (calls' = calls /\ plan' = plan)]_vars

C6_Witness ==
    /\ CycleFailedForGood
    /\ pc = "raised"
    /\ attempt = 2
    /\ plan[Len(plan)].tool_call = "tailor.process+verifier"

InCycle ==
    /\ mode = "batch"
    /\ pc \in {"await_memory_strict", "await_memory_relaxed", "await_tailor",
               "verifying", "await_guard_output", "returned"}

\* C7 (recoverable retry of the whole cycle): each cycle that ends in a
\* recoverable Failure appends exactly one retry step, and the next cycle
\* starts from retrieval: the step after a retry step is a memory.query step
\* of the announced iteration and every call of the Tailor directly follows a
\* memory query.  When a later cycle succeeds its Answer is returned and
\* every synthesis step but the last is failed.
C7_RetryWholeCycle ==
    /\ InCycle => Cardinality(RetrySteps(plan)) = attempt - 1
    /\ \A i \in RetrySteps(plan) :
           i < Len(plan) =>
               /\ plan[i + 1].tool_call = "memory.query"
               /\ plan[i + 1].description[3] = plan[i].description[3]
    /\ \A j \in 1..Len(calls) :
           calls[j] = "tailor.process" => j > 1 /\ calls[j - 1] = "memory.query"
    /\ (mode = "batch" /\ pc = "returned") =>
           /\ output.citations = response.citations
           /\ \A i \in TailorSteps(plan) :
                  plan[i].status = IF i = Len(plan) THEN "completed" ELSE "failed"

C7_Witness ==
    /\ mode = "batch"
    /\ pc = "returned"
    /\ attempt = 2
    /\ Cardinality(TailorSteps(plan)) = 2

\* C8 (streaming termination): the events of a stream_query that is over
\* hold exactly one terminal event, "complete" or "error", and it is the
\* last event.
C8_OneTerminalEvent ==
    (mode = "stream" /\ pc \in {"stream_closed", "stream_raised"}) =>
        /\ Cardinality(TerminalEvents) = 1
        /\ Len(events) \in TerminalEvents

\* the contexts count of C10 as stated: distinct whitespace-normalized
\* lowercased contents
DistinctNormalized(contexts_) ==
    Cardinality({Normalized[contexts_[i].content] : i \in 1..Len(contexts_)})

\* ... and as amended: of the contexts whose content is not blank
DistinctNonBlank(contexts_) ==
    Cardinality({Normalized[contexts_[i].content] :
                   i \in {j \in 1..Len(contexts_) :
                            Stripped[contexts_[j].content] # <<>>}})

\* C10 as stated (citation count invariant): an Answer returned in summary
\* mode has at least min(3, max(1, distinct normalized contexts)) citations,
\* in normal mode at least 1.
C10_CitationCount ==
    LET required == IF summary_mode
                    THEN Min(3, Max(1, DistinctNormalized(contexts)))
                    ELSE 1
    IN  /\ pc = "returned" => Len(output.citations) >= required
        /\ \A j \in CompleteEvents : Len(events[j].data.citations) >= required

AmendedMinimum ==
    IF summary_mode THEN Min(3, Max(1, DistinctNonBlank(contexts))) ELSE 1

\* C10 as amended: an Answer returned in summary mode has at least
\* min(3, max(1, distinct normalized contents of the non-blank contexts))
\* citations, in normal mode at least 1; an output with fewer citations is
\* rejected with a recoverable hallucination Failure.
C10_CitationCountNonBlank ==
    /\ [](/\ pc = "returned" => Len(output.citations) >= AmendedMinimum
          /\ \A j \in CompleteEvents :
                 Len(events[j].data.citations) >= AmendedMinimum)
    /\ [][(pc = "verifying" /\ Len(response.citations) < AmendedMinimum) =>
              /\ last_error' = AgentFailure(ERR_TAILOR_HALLUCINATION, TRUE)
              /\ pc' \notin {"await_guard_output", "returned"}
              /\ plan'[synth_step].status = "failed"]_vars

C10_Witness ==
    /\ pc = "returned"
    /\ summary_mode
    /\ AmendedMinimum = 3
    /\ Len(output.citations) = 3
    /\ DistinctNormalized(contexts) > DistinctNonBlank(contexts)

\* the "Relax retrieval threshold" steps of the ledger
RelaxedSteps(plan_) ==
    {i \in 1..Len(plan_) : plan_[i].description[1] = "Relax retrieval threshold"}

\* the only target of the first cycle was retrieved by its relaxed query,
\* after its strict query found nothing, and the relaxed results are not
\* empty: _retrieve_contexts has returned them and the Tailor is called
RelaxedRetrievalDone ==
    /\ mode = "batch"
    /\ pc = "await_tailor"
    /\ attempt = 1
    /\ StepsWith(plan, "memory.query") = {2, 3}
    /\ RelaxedSteps(plan) = {3}

\* C11 (retrieval relaxation): when the strict query of a target finds
\* nothing and its relaxed query returns a non-empty result,
\* _retrieve_contexts returns the relaxed results with no Failure and the
\* ledger holds two memory.query steps for the target, the strict one
\* 'failed' and the relaxed one 'completed'.
C11_RelaxationLedger ==
    RelaxedRetrievalDone =>
        /\ contexts # <<>>
        /\ last_error = NoFailure
        /\ plan[2].description[2] = plan[3].description[2]
        /\ plan[3].status = "completed"
        /\ plan[2].status = "failed"

\* a Failure the Memory Port reported, returned or raised
MemoryFailed(reply) == reply.kind \in {"returned", "raised"}

\* _retrieve_contexts returned ([], failure): run_query goes on without
\* synthesis, and queries the Memory Port again only in a new cycle
RetrievalAborted(failure) ==
    /\ last_error' = failure
    /\ contexts' = <<>>
    /\ pc' \in {"raised", "await_memory_strict"}
    /\ TailorSteps(plan') = TailorSteps(plan)
    /\ IF pc' = "await_memory_strict"
       THEN /\ attempt' = attempt + 1
            /\ target' = 1
            /\ calls' = Append(calls, "memory.query")
       ELSE /\ attempt' = attempt
            /\ calls' = calls

\* C12 (retrieval abort): a Failure other than no-results from the strict
\* query of a target, or any Failure from its relaxed query (a second
\* no-results included), ends retrieval with that Failure and no contexts,
\* whatever earlier targets gave: no later target of the cycle is queried.
C12_RetrievalAbort ==
    [][/\ \A reply \in MemoryReplies(env) :
              ( /\ MemoryFailed(reply)
                /\ reply.failure.error_code # ERR_MEMORY_NO_RESULTS
                /\ MemoryStrictReturn(reply) ) => RetrievalAborted(reply.failure)
       /\ \A reply \in MemoryReplies(env) :
              ( /\ MemoryFailed(reply)
                /\ MemoryRelaxedReturn(reply) ) => RetrievalAborted(reply.failure)
      ]_vars

\* the second target's relaxed query failed after the first target gave
\* contexts, and run_query raised
C12_Witness ==
    /\ mode = "batch"
    /\ pc = "raised"
    /\ attempt = 1
    /\ Len(Targets(sanitized_query, topics)) >= 2
    /\ Cardinality(StepsWith(plan, "memory.query")) = 3
    /\ plan[2].status = "completed"
    /\ plan[3].status = "failed"
    /\ plan[4].status = "failed"
    /\ error.error_code = ERR_MEMORY_NO_RESULTS

\* retrieval of the last target succeeds and leaves no contexts at all
RetrievedNothing(reply) ==
    /\ mode = "batch"
    /\ reply.kind = "ok"
    /\ contexts \o reply.results = <<>>
    /\ target = Len(Targets(sanitized_query, topics))
    /\ MemoryStrictReturn(reply) \/ MemoryRelaxedReturn(reply)

C15_LedgerIsolation ==
    (mode = "batch" /\ pc = "returned") =>
        /\ \A i \in 1..Len(plan) : plan[i].step_id = i
        /\ plan[1].tool_call = "guardrails.enforce"
        /\ plan[1].status = "completed"
        /\ Cardinality(StepsWith(plan, "memory.query"))
               = CountOf(calls, "memory.query")
        /\ Cardinality(TailorSteps(plan)) >= CountOf(calls, "tailor.process")

\* the status changes the ledger allows, over one or more assignments
ForwardStatus(before, after) ==
    \/ after = before
    \/ before = "pending" /\ after \in {"in_progress", "completed", "failed"}
    \/ before = "in_progress" /\ after \in {"completed", "failed"}

\* C16 (forward-only step status): over an execution of run_query or
\* stream_query steps are only appended to the ledger, never removed,
\* reordered or rewritten, and the status of a step only moves forward:
\* pending -> in_progress -> completed or failed, and never away from
\* 'completed' or 'failed'.
C16_ForwardOnlyStatus ==
    [][pc # "idle" =>
          /\ Len(plan') >= Len(plan)
          /\ \A i \in 1..Len(plan) :
                 /\ plan'[i].step_id = plan[i].step_id
                 /\ plan'[i].tool_call = plan[i].tool_call
                 /\ plan'[i].description = plan[i].description
                 /\ ForwardStatus(plan[i].status, plan'[i].status)]_vars

\* C17 (streaming is a single pass): stream_query runs no second cycle and
\* appends no retry step, starts the Tailor's stream at most once, and any
\* Failure, recoverable or not, ends the stream with an 'error' event that
\* carries it.
C17_StreamSinglePass ==
    mode = "stream" =>
        /\ attempt <= 1
        /\ RetrySteps(plan) = {}
        /\ CountOf(calls, "tailor.stream_response") <= 1
        /\ InputGuardrailFailed(guard_result) =>
               /\ events # <<>>
               /\ events[Len(events)] =
                      [event |-> "error", data |-> guard_result.failure]

\* the numbers of markers that name one of the numbered contexts
InRange(markers, numbered) ==
    { markers[i] : i \in 1..Len(markers) } \cap (1..Len(numbered))

\* a marker of the text names no numbered context
HasOutOfRange(content, numbered) ==
    \E i \in 1..Len(content.markers) :
        content.markers[i] \notin 1..Len(numbered)

\* the attempt ended in the recoverable hallucination Failure, with no Answer
HallucinationRejected ==
    /\ last_error' = AgentFailure(ERR_TAILOR_HALLUCINATION, TRUE)
    /\ plan'[synth_step].status = "failed"
    /\ response' = NoResponse
    /\ output' = NoResponse
    /\ pc' \in {"raised", "await_memory_strict"}

\* C18 as stated (out-of-range citations are rejected): no Answer is
\* returned whose text has a marker [n] with n outside
\* 1..(number of deduplicated contexts).
C18_OutOfRangeRejected ==
    output # NoResponse =>
        ~ HasOutOfRange(output.content, DeduplicateContext(contexts))

\* C18 (out-of-range citations are dropped): a generated text none of whose
\* markers names a numbered context ends the attempt with the recoverable
\* hallucination Failure and no Answer; a text with a marker in range comes
\* back from the Tailor with exactly the contexts of its in-range markers as
\* citations, the markers out of range giving no citation.
C18_OutOfRangeDropped ==
    [][\A r \in LlmReplies(env) :
          ( /\ pc = "await_tailor"
            /\ AnyReply(env)
            /\ r.kind = "text"
            /\ TailorReturn(TailorAgentProcess(contexts, r)) ) =>
               LET numbered == DeduplicateContext(contexts)
                   valid == InRange(r.text.markers, numbered)
               IN  IF valid = {}
                   THEN HallucinationRejected
                   ELSE /\ pc' = "verifying"
                        /\ response'.content = r.text
                        /\ { response'.citations[i].chunk_id :
                               i \in 1..Len(response'.citations) }
                           = { numbered[n].chunk_id : n \in valid }
      ]_vars

\* an Answer was returned whose text has a marker out of range, and its
\* citations are those of the markers in range
C18_Witness ==
    /\ mode = "batch"
    /\ pc = "returned"
    /\ output # NoResponse
    /\ HasOutOfRange(output.content, DeduplicateContext(contexts))
    /\ output.citations # <<>>
    /\ \A i \in 1..Len(output.citations) :
           output.citations[i].chunk_id \in ChunkIdsOf(contexts)

\* the places of the list at which chunk stands
PlacesOf(chunk, chunks) == { i \in 1..Len(chunks) : chunks[i] = chunk }

\* the entries of kept stand in chunks, in the order of their first places
FirstSeenOrder(chunks, kept) ==
    /\ \A n \in 1..Len(kept) : PlacesOf(kept[n], chunks) # {}
    /\ \A m, n \in 1..Len(kept) :
           m < n => \E i \in PlacesOf(kept[m], chunks) :
                        \A j \in PlacesOf(kept[n], chunks) : i < j

\* no two entries share a chunk_id or a normalized content
NoDuplicates(kept) ==
    \A m, n \in 1..Len(kept) :
        m # n => /\ kept[m].chunk_id # kept[n].chunk_id
                 /\ Normalize(kept[m].content) # Normalize(kept[n].content)

\* how many times the marker [n] stands in the text
TimesCited(content, n) ==
    Cardinality({ i \in 1..Len(content.markers) : content.markers[i] = n })

\* C19 (idempotent dedup): the list _deduplicate_context returns has no two
\* entries with the same chunk_id or the same normalized content and keeps
\* the entries in first-seen order; a list of one chunk fed several times
\* gives exactly one entry; deduplicating the returned list again gives the
\* same list; and _extract_citations gives one citation for each context
\* whose marker stands in the text, however many times it stands there.
C19_IdempotentDedup ==
    /\ pc = "deduplicated" =>
           /\ NoDuplicates(unique_context)
           /\ FirstSeenOrder(contexts, unique_context)
           /\ ( /\ contexts # <<>>
                /\ \A i \in 1..Len(contexts) : contexts[i] = contexts[1] )
              => unique_context = <<contexts[1]>>
    /\ pc = "deduplicated_again" => unique_context = contexts
    /\ pc = "extracted" =>
           \A n \in 1..Len(unique_context) :
               Cardinality({ i \in 1..Len(response.citations) :
                   response.citations[i] = SourceCitation(unique_context[n]) })
               = IF TimesCited(response.content, n) > 0 THEN 1 ELSE 0

\* the same chunk was fed twice and its marker stands twice in the text:
\* one numbered context, one citation
C19_Witness ==
    /\ pc = "extracted"
    /\ Len(contexts) >= 2
    /\ contexts[1] = contexts[2]
    /\ Len(unique_context) = 1
    /\ TimesCited(response.content, 1) >= 2
    /\ Len(response.citations) = 1

\* the risk _scan finds in the answer the output guardrail is called on
OutputRisk == Scan(response.content.words).risk_category

\* C20 as stated (output PII is redaction-only): when enforce finds PII and
\* no other risk in the answer content, the outcome is a success and
\* run_query returns the Answer with its content replaced by the redacted
\* text.
C20_OutputPiiRedactionOnly ==
    [][( /\ pc = "await_guard_output"
         /\ OutputRisk = "pii"
         /\ GuardOutputReturn(EnforceOutput(response.content)) ) =>
            /\ pc' = "returned"
            /\ output' = [response EXCEPT
                            !.content.words = SanitizePii(response.content.words)]
      ]_vars

\* C20 (output PII blocks): when enforce finds any risk in the answer
\* content, PII alone included, the outcome is a non-recoverable Failure
\* (ERR_GUARDRAIL_INJECTION for an injection, ERR_GUARDRAIL_UNSAFE for
\* everything else) that run_query raises, and no Answer is returned; only
\* an answer with no risk is returned, its content unchanged.
C20_OutputPiiBlocks ==
    [][( /\ pc = "await_guard_output"
         /\ GuardOutputReturn(EnforceOutput(response.content)) ) =>
            IF OutputRisk = "none"
            THEN /\ pc' = "returned"
                 /\ output' = response
            ELSE /\ pc' = "raised"
                 /\ output' = NoResponse
                 /\ plan'[synth_step].status = "failed"
                 /\ error' = GuardrailFailure(
                                 IF OutputRisk = "injection"
                                 THEN ERR_GUARDRAIL_INJECTION
                                 ELSE ERR_GUARDRAIL_UNSAFE, OutputRisk)
      ]_vars

\* run_query raised the Failure of the output guardrail for an answer with
\* PII and no other risk
C20_Witness ==
    /\ pc = "raised"
    /\ calls # <<>>
    /\ calls[Len(calls)] = "guardrails.enforce"
    /\ TailorSteps(plan) # {}
    /\ error = GuardrailFailure(ERR_GUARDRAIL_UNSAFE, "pii")
    /\ output = NoResponse

\* the risks the content holds, whatever their precedence
RisksIn(content) ==
    {"injection" : i \in {j \in 1..Len(content) : content[j] = "DAN"}}
    \cup {"hate_speech" : i \in {j \in 1..Len(content) : content[j] = "genocide"}}
    \cup {"malicious_code" :
              i \in {j \in 1..Len(content) : content[j] = "os.system"}}
    \cup {"pii" : i \in {j \in 1..Len(content) : content[j] = "pii"}}

\* the risk that takes precedence: injection > hate_speech > malicious_code
\* > pii
TopRisk(risks) ==
    IF "injection" \in risks THEN "injection"
    ELSE IF "hate_speech" \in risks THEN "hate_speech"
    ELSE IF "malicious_code" \in risks THEN "malicious_code"
    ELSE "pii"

\* the content with every PII word replaced by the placeholder
Redacted(content, sanitized) ==
    /\ Len(sanitized) = Len(content)
    /\ \A i \in 1..Len(content) :
           sanitized[i] = IF content[i] = "pii" THEN "[REDACTED:PII]"
                          ELSE content[i]

\* C21 (guardrail decision table): enforce succeeds exactly when the content
\* holds no risk, or holds PII only and the check is input_validation, and
\* the success carries the redacted content; otherwise it returns a Failure
\* with recoverable = false, ERR_GUARDRAIL_INJECTION when the content holds
\* an injection and ERR_GUARDRAIL_UNSAFE when it does not, the risk reported
\* being the first of injection, hate_speech, malicious_code, pii.
C21_DecisionTable ==
    pc = "enforced" =>
        LET risks == RisksIn(request_text)
        IN  IF \/ risks = {}
               \/ risks = {"pii"} /\ check_type = "input_validation"
            THEN /\ guard_result.kind = "ok"
                 /\ guard_result.failure = NoFailure
                 /\ Redacted(request_text, guard_result.sanitized_content)
            ELSE /\ guard_result.kind = "returned"
                 /\ guard_result.failure.recoverable = FALSE
                 /\ guard_result.failure.error_code =
                        IF "injection" \in risks THEN ERR_GUARDRAIL_INJECTION
                        ELSE ERR_GUARDRAIL_UNSAFE
                 /\ guard_result.failure.details.risk_category = TopRisk(risks)

\* an output with PII and malicious code was blocked as malicious code
C21_Witness ==
    /\ pc = "enforced"
    /\ check_type = "output_safety"
    /\ RisksIn(request_text) = {"pii", "malicious_code"}
    /\ guard_result.kind = "returned"
    /\ guard_result.failure.error_code = ERR_GUARDRAIL_UNSAFE
    /\ guard_result.failure.details.risk_category = "malicious_code"

\* the input guardrail let the query through
InputPassed == guard_result.kind = "ok"

\* C22 (exhaustion surfaces the last failure): with a Memory Port that
\* reports no-results on every query and max_depth >= 1, run_query never
\* runs more than max_depth cycles, never returns, and once the input
\* guardrail has let the query through it raises only after max_depth
\* cycles, the Failure raised being the no-results Failure of the last
\* cycle.
C22_ExhaustionSurfacesLastFailure ==
    /\ attempt <= Max(max_depth, 0)
    /\ pc # "returned"
    /\ ( /\ pc = "raised"
         /\ InputPassed
         /\ max_depth >= 1 ) =>
           /\ attempt = max_depth
           /\ Cardinality(RetrySteps(plan)) = max_depth
           /\ error = AgentFailure(ERR_MEMORY_NO_RESULTS, TRUE)
           /\ error = last_error

\* two cycles found nothing and run_query raised the no-results Failure
C22_Witness ==
    /\ pc = "raised"
    /\ InputPassed
    /\ max_depth = 2
    /\ attempt = 2
    /\ error.error_code = ERR_MEMORY_NO_RESULTS
    /\ Cardinality(StepsWith(plan, "memory.query")) >= 4

\* the tool calls whose PlanSteps stand for one port call each
PortTools == {"guardrails.enforce", "memory.query", "tailor.process+verifier"}

\* C23 (steps are finalised): whenever run_query has returned or raised, no
\* PlanStep of a guardrail, memory or tailor call is left 'pending' or
\* 'in_progress': each is 'completed' or 'failed'.
C23_StepsFinalised ==
    ( /\ mode = "batch"
      /\ pc \in {"returned", "raised"} ) =>
        \A i \in 1..Len(plan) :
            plan[i].tool_call \in PortTools =>
                plan[i].status \in {"completed", "failed"}

\* the indices of the memory.query steps of cycle a, relaxed ones included
RetrievalSteps(plan_, a) ==
    { i \in StepsWith(plan_, "memory.query") : plan_[i].description[3] = a }

\* the indices of the strict memory.query steps of cycle a
StrictSteps(plan_, a) ==
    { i \in RetrievalSteps(plan_, a) :
          plan_[i].description[1] = "Retrieve context" }

\* the k-th smallest member of a set of indices
RECURSIVE Nth(_, _)
Nth(indices, k) ==
    LET least == CHOOSE i \in indices : \A j \in indices : i <= j
    IN  IF k = 1 THEN least ELSE Nth(indices \ {least}, k - 1)

\* C24 (per-topic retrieval before synthesis): in every cycle of run_query
\* the targets are the extracted topics when there are any and the
\* sanitized query alone when there are none; the strict memory.query steps
\* of the cycle are appended one per target in target order; and the
\* tailor.process+verifier step of a cycle comes after one strict step for
\* every target and after every retrieval step of that cycle.
C24_RetrievalBeforeSynthesis ==
    ( /\ mode = "batch"
      /\ attempt >= 1 ) =>
        LET expected == IF topics # <<>> THEN topics ELSE <<sanitized_query>>
        IN  \A a \in 1..attempt :
                LET strict == StrictSteps(plan, a)
                IN  /\ Cardinality(strict) <= Len(expected)
                    /\ \A k \in 1..Cardinality(strict) :
                           plan[Nth(strict, k)].description[2] = expected[k]
                    /\ \A t \in TailorSteps(plan) :
                           plan[t].description[3] = a =>
                               /\ Cardinality(strict) = Len(expected)
                               /\ \A i \in RetrievalSteps(plan, a) : i < t

\* two topics were extracted: two strict retrieval steps, then synthesis
C24_Witness ==
    /\ mode = "batch"
    /\ pc = "await_tailor"
    /\ attempt = 1
    /\ Len(topics) = 2
    /\ Cardinality(StrictSteps(plan, 1)) = 2
    /\ plan[Nth(StrictSteps(plan, 1), 1)].description[2] = topics[1]
    /\ plan[Nth(StrictSteps(plan, 1), 2)].description[2] = topics[2]
    /\ \E t \in TailorSteps(plan) : \A i \in StrictSteps(plan, 1) : i < t

\* a relaxed query for the target at hand was issued and nothing else done
RelaxedQueryIssued ==
    /\ pc' = "await_memory_relaxed"
    /\ target' = target
    /\ attempt' = attempt
    /\ calls' = Append(calls, "memory.query")
    /\ Len(plan') = Len(plan) + 1
    /\ plan'[Len(plan')].description =
           <<"Relax retrieval threshold",
             Targets(sanitized_query, topics)[target], attempt>>

\* no target has more than two memory.query steps in one cycle
AtMostTwice ==
    \A a \in 1..attempt :
        \A i \in RetrievalSteps(plan, a) :
            Cardinality({ j \in RetrievalSteps(plan, a) :
                plan[j].description[2] = plan[i].description[2] }) <= 2

\* C25 as stated (relaxation exactly once per target): whenever the strict
\* query of a target reports no-results, the Failure returned or raised,
\* one relaxed query for the same target is issued immediately afterwards.
C25_RelaxedOnNoResults ==
    [][\A reply \in MemoryReplies(env) :
          ( /\ MemoryFailed(reply)
            /\ reply.failure.error_code = ERR_MEMORY_NO_RESULTS
            /\ MemoryStrictReturn(reply) ) => RelaxedQueryIssued
      ]_vars

\* C25 (relaxation once per target, on a returned Failure): when the strict
\* query of a target returns the no-results Failure, one relaxed query for
\* the same target is issued immediately afterwards; when the strict query
\* raises, no-results included, no relaxed query is issued; a relaxed query
\* is never followed by another query of the same target in the cycle; and
\* no target is queried more than twice in one cycle.
C25_RelaxedOnReturnedNoResults ==
    [][/\ \A reply \in MemoryReplies(env) :
              ( /\ reply.kind = "returned"
                /\ reply.failure.error_code = ERR_MEMORY_NO_RESULTS
                /\ MemoryStrictReturn(reply) ) => RelaxedQueryIssued
       /\ \A reply \in MemoryReplies(env) :
              ( /\ reply.kind = "raised"
                /\ MemoryStrictReturn(reply) ) =>
                    /\ pc' # "await_memory_relaxed"
                    /\ RelaxedSteps(plan') = RelaxedSteps(plan)
       /\ \A reply \in MemoryReplies(env) :
              MemoryRelaxedReturn(reply) =>
                    /\ pc' # "await_memory_relaxed"
                    /\ pc' = "await_memory_strict" =>
                           \/ attempt' = attempt + 1
                           \/ target' = target + 1
       /\ AtMostTwice'
      ]_vars

\* the second target of a cycle is at its relaxed query, right after its
\* strict query
C25_Witness ==
    /\ mode = "batch"
    /\ pc = "await_memory_relaxed"
    /\ target = 2
    /\ Cardinality({ j \in RetrievalSteps(plan, attempt) :
           plan[j].description[2] =
               Targets(sanitized_query, topics)[2] }) = 2
    /\ plan[Len(plan)].description[1] = "Relax retrieval threshold"
    /\ plan[Len(plan) - 1].status = "failed"

\* the outcome is an HTTP error response with a status in the range
StatusIn(outcome, low, high) ==
    /\ outcome.kind = "http_status"
    /\ low <= outcome.status
    /\ outcome.status <= high

\* C26 (LLM retry policy): generate calls the provider at most
\* llm_max_retries times; it calls again only after a 429 or 5xx response,
\* so another 4xx response is the last call, the only one when it is the
\* first, and gives a Failure with recoverable = false; when every call
\* fails with 5xx, generate returns ERR_TIMEOUT with recoverable = true
\* after exactly llm_max_retries calls; and generate always ends in a text
\* or a Failure, never in an exception, llm_max_retries = 0 included.
C26_RetryPolicy ==
    /\ Len(provider_calls) <= max_retries
    /\ \A i \in 1..(Len(provider_calls) - 1) :
           \/ StatusIn(provider_calls[i], 429, 429)
           \/ StatusIn(provider_calls[i], 500, 599)
    /\ pc = "generated" =>
           /\ llm_result.kind \in {"text", "failure"}
           /\ llm_result.kind = "text" <=>
                  /\ provider_calls # <<>>
                  /\ provider_calls[Len(provider_calls)].kind = "text"
           /\ ( /\ provider_calls # <<>>
                /\ StatusIn(provider_calls[Len(provider_calls)], 400, 499)
                /\ ~ StatusIn(provider_calls[Len(provider_calls)], 429, 429) )
              => /\ llm_result.kind = "failure"
                 /\ llm_result.failure.recoverable = FALSE
           /\ ( /\ provider_calls # <<>>
                /\ \A i \in 1..Len(provider_calls) :
                       StatusIn(provider_calls[i], 500, 599) )
              => /\ llm_result = LlmFailure(ERR_TIMEOUT, TRUE)
                 /\ Len(provider_calls) = max_retries
           /\ max_retries = 0 => llm_result.kind = "failure"

\* three calls failed with 5xx and generate returned the timeout Failure
C26_Witness ==
    /\ pc = "generated"
    /\ max_retries = 3
    /\ Len(provider_calls) = 3
    /\ \A i \in 1..3 : StatusIn(provider_calls[i], 500, 599)
    /\ llm_result = LlmFailure(ERR_TIMEOUT, TRUE)
    /\ delay = 4

\* C27 (summary-mode grounding is satisfiable): for the contexts a summary
\* query is synthesized from, the minimum citation count computed from the
\* raw contexts is at most the number of contexts left after
\* deduplication, which is the most citations a generated text can have.
C27_SummaryMinimumSatisfiable ==
    ( /\ summary_mode
      /\ pc \in {"await_tailor", "verifying"} ) =>
        MinCitations(contexts, summary_mode)
            <= Len(DeduplicateContext(contexts))

\* C28 (raw input never bypasses sanitization): once the input guardrail
\* check has succeeded, the query used downstream, for summary-mode
\* detection and as the fallback retrieval target, is the sanitized_content
\* the Guardrail Port returned; the raw request text is not used when it
\* differs from it.
C28_SanitizedOnly ==
    guard_result.kind = "ok" =>
        /\ sanitized_query = guard_result.sanitized_content
        /\ summary_mode = IsSummaryQuery(guard_result.sanitized_content)

\* retrieval of cycle a got through every target: a strict step for each,
\* and no step 'failed' unless a later relaxed step of the same target is
\* 'completed'
RetrievalSucceeded(plan_, a) ==
    /\ Cardinality(StrictSteps(plan_, a)) =
           Len(IF topics # <<>> THEN topics ELSE <<sanitized_query>>)
    /\ \A i \in RetrievalSteps(plan_, a) :
           plan_[i].status \in {"completed", "failed"}
    /\ \A i \in RetrievalSteps(plan_, a) :
           plan_[i].status = "failed" =>
               \E j \in RetrievalSteps(plan_, a) :
                   /\ j > i
                   /\ j \in RelaxedSteps(plan_)
                   /\ plan_[j].description[2] = plan_[i].description[2]
                   /\ plan_[j].status = "completed"

\* C29 (ledger shape on success): when run_query has returned in cycle k,
\* the ledger holds exactly k - 1 orchestrator.retry steps and exactly one
\* 'completed' tailor.process+verifier step, which is its last step, and
\* every tailor.process+verifier step belongs to a cycle whose retrieval
\* succeeded for every target.
C29_LedgerShapeOnSuccess ==
    ( /\ mode = "batch"
      /\ pc = "returned" ) =>
        /\ attempt \in 1..max_depth
        /\ Cardinality(RetrySteps(plan)) = attempt - 1
        /\ { t \in TailorSteps(plan) : plan[t].status = "completed" }
               = {Len(plan)}
        /\ \A t \in TailorSteps(plan) :
               /\ plan[t].description[3] \in 1..attempt
               /\ RetrievalSucceeded(plan, plan[t].description[3])

\* run_query returned in its second cycle: one retry step, and the
\* synthesis step of the first cycle 'failed'
C29_Witness ==
    /\ mode = "batch"
    /\ pc = "returned"
    /\ attempt = 2
    /\ Cardinality(RetrySteps(plan)) = 1
    /\ Cardinality(TailorSteps(plan)) = 2
    /\ plan[Len(plan)].tool_call = "tailor.process+verifier"
    /\ plan[Len(plan)].status = "completed"

\* C30 as stated (every announced retry runs): the number of
\* orchestrator.retry steps of run_query's ledger is always strictly less
\* than the number of cycles run, so the ledger never ends with a retry
\* step for an iteration that does not take place.
C30_RetryStepsBelowCycles ==
    ( /\ mode = "batch"
      /\ attempt >= 1 ) =>
        /\ Cardinality(RetrySteps(plan)) < attempt
        /\ pc \in {"returned", "raised"} =>
               plan[Len(plan)].tool_call # "orchestrator.retry"

\* run_query gave up after its last cycle ended in a recoverable Failure
GaveUp ==
    /\ pc = "raised"
    /\ error.recoverable

\* C30 (a retry step for every cycle that failed recoverably): run_query
\* appends an orchestrator.retry step after every cycle that ends in a
\* recoverable Failure, the last one included: while a cycle runs, and when
\* run_query returns or raises a non-recoverable Failure, the ledger holds
\* one retry step fewer than cycles run; when run_query gives up after
\* max_depth cycles it holds as many retry steps as cycles, the last of
\* them, for iteration max_depth + 1, being the last step of the ledger.
C30_RetryStepPerFailedCycle ==
    ( /\ mode = "batch"
      /\ attempt >= 1 ) =>
        /\ \A i \in RetrySteps(plan) :
               plan[i].description[3] \in 2..(attempt + 1)
        /\ IF GaveUp
           THEN /\ attempt = max_depth
                /\ Cardinality(RetrySteps(plan)) = attempt
                /\ plan[Len(plan)].tool_call = "orchestrator.retry"
                /\ plan[Len(plan)].description[3] = max_depth + 1
           ELSE /\ Cardinality(RetrySteps(plan)) = attempt - 1
                /\ plan[Len(plan)].tool_call # "orchestrator.retry"

\* run_query gave up after two cycles: two retry steps, the last one for
\* an iteration 3 that never ran
C30_Witness ==
    /\ mode = "batch"
    /\ GaveUp
    /\ max_depth = 2
    /\ attempt = 2
    /\ Cardinality(RetrySteps(plan)) = 2
    /\ plan[Len(plan)].description[3] = 3

====
